---- MODULE Spec2Model ----
(***************************************************************************)
(* Club Brugge tracking pipeline: the two loaders of clubbrugge/io.py and  *)
(* the three per-player metrics of clubbrugge/metrics.py.                  *)
(*                                                                         *)
(* Spec      : load_tracking_data, one step per position of its loop       *)
(* MetaSpec  : load_metadata                                               *)
(* DistSpec  : total_distance                                              *)
(* BandSpec  : distance_by_speed_band                                      *)
(* AccelSpec : count_high_speed_accel                                      *)
(*                                                                         *)
(* A JSON object is a TLA+ record (a function on its keys), so that        *)
(* `"period" in obj` is `"period" \in DOMAIN obj` and a missing key is a   *)
(* KeyError.  A missing float (np.nan) is the empty tuple NaN, a present   *)
(* one is a 1-tuple <<v>>.                                                 *)
(***************************************************************************)
EXTENDS Integers, Sequences, FiniteSets, Bags, TLC

VARIABLES
    \* load_tracking_data
    chunk_size,     \* keyword argument
    consumed,       \* the lines of the file read so far, in order
    obj,            \* the message being processed (json.loads(line))
    side,           \* position of `for side in (...)`: 1 home, 2 away
    idx,            \* position of `for pl in obj[side]`
    batch,          \* list[dict]: the working buffer
    dfs,            \* list[DataFrame]: the consolidated fragments
    df,             \* the returned table, rows labelled with their index
    err,            \* the exception that left the function, or "none"
    pc,             \* position in load_tracking_data
    \* load_metadata
    meta,           \* the parsed metadata document
    records,        \* list[dict] built by the loops
    meta_df,        \* the returned table
    meta_err,       \* the exception that left load_metadata, or "none"
    meta_pc,
    \* metrics
    df_test,        \* the tracking table handed to a metric
    call,           \* the call made: function name and arguments
    out             \* the table the metric returned

tracking_vars == <<chunk_size, consumed, obj, side, idx, batch, dfs, df, err, pc>>
metadata_vars == <<meta, records, meta_df, meta_err, meta_pc>>
metrics_vars == <<df_test, call, out>>
vars == <<tracking_vars, metadata_vars, metrics_vars>>

(***************************************************************************)
(* Bounds of the model.                                                    *)
(***************************************************************************)
MaxLines == 4       \* lines in a tracking stream
MaxChunk == 3       \* chunk_size ranges over 1..MaxChunk
MaxRoster == 2      \* players per team in a metadata document
MaxSamples == 4     \* rows of a table handed to a speed metric
MaxSteps == 3       \* rows of a table handed to total_distance

(***************************************************************************)
(* Generic helpers.                                                        *)
(***************************************************************************)
NaN == <<>>

IsNaN(v) == v = NaN

RECURSIVE Flatten(_)
Flatten(ss) == IF ss = <<>> THEN <<>> ELSE Head(ss) \o Flatten(Tail(ss))

SeqToBag(s) ==
    LET vals == {s[i] : i \in DOMAIN s}
    IN  [v \in vals |-> Cardinality({i \in DOMAIN s : s[i] = v})]

(***************************************************************************)
(* Fixed-width casts (DataFrame.astype).  numpy's integer-to-integer cast  *)
(* keeps the low bits: the value wraps modulo 2^width into the signed      *)
(* range.  Every integer TLC can hold already lies in the int32 range, so  *)
(* the 32-bit cast is the identity on every frameIdx of the model.         *)
(***************************************************************************)
Int8Bits == 8
Int16Bits == 16

WrapSigned(v, bits) == ((v + 2^(bits - 1)) % 2^bits) - 2^(bits - 1)

astype_int8(v) == WrapSigned(v, Int8Bits)

astype_int16(v) == WrapSigned(v, Int16Bits)

astype_int32(v) == v

FitsSigned(v, bits) == -(2^(bits - 1)) <= v /\ v < 2^(bits - 1)

(***************************************************************************)
(* The tracking stream.  A line either fails json.loads or parses to an    *)
(* object.  The universe holds frame messages out of (period, frameIdx)    *)
(* order, with equal keys, with a period and a shirt number outside the    *)
(* int8 range, with empty player lists and with a null xyz; a control      *)
(* message; and the malformed lines io.py can meet.                        *)
(***************************************************************************)
Player(id, number, xyz) ==
    [playerId |-> id, number |-> number, speed |-> 550, xyz |-> xyz]

PlayerNoSpeed == [playerId |-> 1, number |-> 7, xyz |-> <<0, 0, 0>>]

Frame(period, frameIdx, gameClock, home, away) ==
    [period |-> period, frameIdx |-> frameIdx, gameClock |-> gameClock,
     wallClock |-> 1000 + gameClock, homePlayers |-> home, awayPlayers |-> away]

P1 == Player(1, 7, <<3, 4, 0>>)
P2 == Player(2, 10, <<>>)
P3 == Player(1, 200, <<0, 0, 0>>)

FrameMessages ==
    { Frame(1, 5, 20, <<P1>>, <<P2>>),
      Frame(1, 3, 12, <<P2, P1>>, <<>>),
      Frame(1, 5, 21, <<>>, <<P1>>),
      Frame(129, 0, 0, <<P3>>, <<>>),
      Frame(2, 0, 40, <<>>, <<>>) }

ControlMessages == { [type |-> "periodEnd"] }

MalformedMessages ==
    { [period |-> 1, frameIdx |-> 7, wallClock |-> 1000,
       homePlayers |-> <<P1>>, awayPlayers |-> <<>>],
      [period |-> 1, frameIdx |-> 7, gameClock |-> 28, wallClock |-> 1028,
       homePlayers |-> <<P1>>],
      Frame(1, 7, 28, <<P1, PlayerNoSpeed>>, <<P2>>) }

Lines ==
    {[valid |-> TRUE, obj |-> m] :
        m \in FrameMessages \cup ControlMessages \cup MalformedMessages}
    \cup {[valid |-> FALSE]}

Sides == <<"homePlayers", "awayPlayers">>

FrameKeys == {"frameIdx", "gameClock", "wallClock"}

PlayerKeys == {"xyz", "playerId", "number", "speed"}

(***************************************************************************)
(* load_tracking_data, lines 86-100: the record one player entry becomes.  *)
(***************************************************************************)
xyz_of(pl) ==
    IF pl.xyz = <<>> THEN <<NaN, NaN, NaN>>
    ELSE <<<<pl.xyz[1]>>, <<pl.xyz[2]>>, <<pl.xyz[3]>>>>

record_of(o, pl) ==
    [period_id |-> o.period, frame_index |-> o.frameIdx,
     game_clock |-> o.gameClock, wall_clock |-> o.wallClock,
     player_id |-> pl.playerId, player_number |-> pl.number,
     speed |-> pl.speed,
     x |-> xyz_of(pl)[1], y |-> xyz_of(pl)[2], z |-> xyz_of(pl)[3]]

(***************************************************************************)
(* The tail of load_tracking_data, lines 111-122: concat(ignore_index),    *)
(* astype, sort_values, reset_index.  A table is a sequence of             *)
(* [index, row] pairs in row order.                                        *)
(***************************************************************************)
concat_ignore_index(frames) ==
    LET rows == Flatten(frames)
    IN  [i \in 1..Len(rows) |-> [index |-> i - 1, row |-> rows[i]]]

astype_row(r) ==
    [r EXCEPT !.period_id = astype_int8(r.period_id),
              !.frame_index = astype_int32(r.frame_index),
              !.player_number = astype_int8(r.player_number)]

astype(t) == [i \in DOMAIN t |-> [t[i] EXCEPT !.row = astype_row(t[i].row)]]

\* mutant: sort_values(["period_id", "frame_index"]), player_id forgotten
KeyLess_without_player_id(a, b) ==
    \/ a.period_id < b.period_id
    \/ a.period_id = b.period_id /\ a.frame_index < b.frame_index

\* lexicographic order on the sort keys (period_id, frame_index, player_id)
KeyLess(a, b) ==
    \/ a.period_id < b.period_id
    \/ a.period_id = b.period_id /\ a.frame_index < b.frame_index
    \/ a.period_id = b.period_id /\ a.frame_index = b.frame_index
        /\ a.player_id < b.player_id

\* insert e behind every element whose key is not greater: equal keys keep
\* their order of arrival
RECURSIVE insert_stable(_, _)
insert_stable(sorted, e) ==
    IF sorted = <<>> THEN <<e>>
    ELSE IF KeyLess(e.row, Head(sorted).row) THEN <<e>> \o sorted
    ELSE <<Head(sorted)>> \o insert_stable(Tail(sorted), e)

RECURSIVE sort_from(_, _)
sort_from(sorted, rest) ==
    IF rest = <<>> THEN sorted
    ELSE sort_from(insert_stable(sorted, Head(rest)), Tail(rest))

sort_values(t) == sort_from(<<>>, t)

reset_index(t) == [i \in DOMAIN t |-> [t[i] EXCEPT !.index = i - 1]]

assemble(frames) == reset_index(sort_values(astype(concat_ignore_index(frames))))

\* mutant: the final flush forgotten
final_flush_forgotten(fragments, buffer) == fragments

\* the final flush of lines 108-109
final_flush(fragments, buffer) ==
    IF buffer # <<>> THEN Append(fragments, buffer) ELSE fragments

\* mutant: a flush that consolidates only the first chunk_size records
flush_truncated(fragments, buffer, threshold) ==
    IF Len(buffer) >= threshold
    THEN <<Append(fragments, SubSeq(buffer, 1, threshold)), <<>>>>
    ELSE <<fragments, buffer>>

\* mutant: `>` for `>=` in the flush test
flush_strict(fragments, buffer, threshold) ==
    IF Len(buffer) > threshold
    THEN <<Append(fragments, buffer), <<>>>>
    ELSE <<fragments, buffer>>

\* the flush of lines 103-105: <<dfs, batch>> afterwards
flush(fragments, buffer, threshold) ==
    IF Len(buffer) >= threshold
    THEN <<Append(fragments, buffer), <<>>>>
    ELSE <<fragments, buffer>>

(***************************************************************************)
(* load_tracking_data as a state machine.                                  *)
(*   "loop"    at `for line in fh`                                         *)
(*   "players" inside the two player loops of the current message          *)
(*   "check"   at the flush test after the player loops                    *)
(*   "done"    returned df;  "raised"  left by the exception err           *)
(***************************************************************************)
NoObj == [none |-> TRUE]

TrackingInit ==
    /\ chunk_size \in 1..MaxChunk
    /\ consumed = <<>>
    /\ obj = NoObj
    /\ side = 1
    /\ idx = 1
    /\ batch = <<>>
    /\ dfs = <<>>
    /\ df = <<>>
    /\ err = "none"
    /\ pc = "loop"

Raise(e) ==
    /\ err' = e
    /\ pc' = "raised"
    /\ UNCHANGED <<chunk_size, obj, side, idx, batch, dfs, df>>

\* lines 72-82: read one line, parse it, skip it or take its frame fields
ReadLine ==
    /\ pc = "loop"
    /\ Len(consumed) < MaxLines
    /\ \E line \in Lines :
        /\ consumed' = Append(consumed, line)
        /\ IF ~line.valid THEN Raise("JSONDecodeError")
           ELSE IF "period" \notin DOMAIN line.obj
           THEN UNCHANGED <<chunk_size, obj, side, idx, batch, dfs, df, err, pc>>
           ELSE IF ~(FrameKeys \subseteq DOMAIN line.obj) THEN Raise("KeyError")
           ELSE /\ obj' = line.obj
                /\ side' = 1
                /\ idx' = 1
                /\ pc' = "players"
                /\ UNCHANGED <<chunk_size, batch, dfs, df, err>>

\* lines 84-100: one step of the nested player loops
NextPlayer ==
    /\ pc = "players"
    /\ UNCHANGED consumed
    /\ IF Sides[side] \notin DOMAIN obj THEN Raise("KeyError")
       ELSE IF idx > Len(obj[Sides[side]])
       THEN /\ IF side = 1
               THEN side' = 2 /\ idx' = 1 /\ pc' = pc
               ELSE side' = side /\ idx' = idx /\ pc' = "check"
            /\ UNCHANGED <<chunk_size, obj, batch, dfs, df, err>>
       ELSE LET pl == obj[Sides[side]][idx]
            IN  IF ~(PlayerKeys \subseteq DOMAIN pl) THEN Raise("KeyError")
                ELSE /\ batch' = Append(batch, record_of(obj, pl))
                     /\ idx' = idx + 1
                     /\ UNCHANGED <<chunk_size, obj, side, dfs, df, err, pc>>

\* lines 102-105
FlushCheck ==
    /\ pc = "check"
    /\ dfs' = flush(dfs, batch, chunk_size)[1]
    /\ batch' = flush(dfs, batch, chunk_size)[2]
    /\ obj' = NoObj
    /\ pc' = "loop"
    /\ UNCHANGED <<chunk_size, consumed, side, idx, df, err>>

\* lines 107-123: end of file, final flush, pd.concat (which raises
\* ValueError on an empty list of fragments), astype, sort, reset_index
Finish ==
    /\ pc = "loop"
    /\ dfs' = final_flush(dfs, batch)
    /\ IF dfs' = <<>>
       THEN /\ err' = "ValueError"
            /\ pc' = "raised"
            /\ df' = df
       ELSE /\ df' = assemble(dfs')
            /\ pc' = "done"
            /\ err' = err
    /\ UNCHANGED <<chunk_size, consumed, obj, side, idx, batch>>

MetadataIdle ==
    /\ meta = <<>>
    /\ records = <<>>
    /\ meta_df = <<>>
    /\ meta_err = "none"
    /\ meta_pc = "idle"

MetricsIdle ==
    /\ df_test = <<>>
    /\ call = <<>>
    /\ out = <<>>

Init == TrackingInit /\ MetadataIdle /\ MetricsIdle

Next ==
    \/ ReadLine /\ UNCHANGED <<metadata_vars, metrics_vars>>
    \/ NextPlayer /\ UNCHANGED <<metadata_vars, metrics_vars>>
    \/ FlushCheck /\ UNCHANGED <<metadata_vars, metrics_vars>>
    \/ Finish /\ UNCHANGED <<metadata_vars, metrics_vars>>

Spec == Init /\ [][Next]_vars


(***************************************************************************)
(* What the claims about load_tracking_data speak of, computed from the    *)
(* lines read and never from batch or dfs.                                 *)
(***************************************************************************)
IsControl(line) == line.valid /\ "period" \notin DOMAIN line.obj

IsWellFormedFrame(line) ==
    /\ line.valid
    /\ ({"period", "homePlayers", "awayPlayers"} \cup FrameKeys)
            \subseteq DOMAIN line.obj
    /\ \A s \in {"homePlayers", "awayPlayers"} :
        \A i \in DOMAIN line.obj[s] : PlayerKeys \subseteq DOMAIN line.obj[s][i]

IsMalformed(line) == ~IsControl(line) /\ ~IsWellFormedFrame(line)

EntriesOf(o) == o.homePlayers \o o.awayPlayers

RecordsOfMessage(o) ==
    [i \in 1..Len(EntriesOf(o)) |-> record_of(o, EntriesOf(o)[i])]

RECURSIVE ExpectedRecords(_)
ExpectedRecords(lines) ==
    IF lines = <<>> THEN <<>>
    ELSE (IF IsWellFormedFrame(Head(lines))
          THEN RecordsOfMessage(Head(lines).obj) ELSE <<>>)
         \o ExpectedRecords(Tail(lines))

RECURSIVE ExpectedRowCount(_)
ExpectedRowCount(lines) ==
    IF lines = <<>> THEN 0
    ELSE (IF IsWellFormedFrame(Head(lines))
          THEN Len(Head(lines).obj.homePlayers) + Len(Head(lines).obj.awayPlayers)
          ELSE 0)
         + ExpectedRowCount(Tail(lines))

RowsOf(t) == [i \in DOMAIN t |-> t[i].row]

Returned == pc = "done"

Failed == pc = "raised"

\* C1: for every stream and every positive chunk_size the load returns the
\* table that one single consolidation of all records gives, and fails on
\* exactly the streams on which that one fails: the outcome is a function of
\* the stream alone, so any two values of chunk_size give the same table
\* (same rows, same order, same index).
C1_ChunkSizeIrrelevant ==
    /\ Returned =>
        /\ ExpectedRecords(consumed) # <<>>
        /\ df = assemble(<<ExpectedRecords(consumed)>>)
    /\ (Failed /\ err = "ValueError") => ExpectedRecords(consumed) = <<>>

\* a load that consolidated at least two fragments before the final table
C1_Witness ==
    /\ Returned
    /\ Len(dfs) >= 2
    /\ Len(df) >= 3
    /\ chunk_size > 1

\* C2: the returned rows are non-decreasing in (period_id, frame_index,
\* player_id) order on the values as stored after the int8 / int32 cast, and
\* the row index is 0..n-1.
LexLeq(a, b) ==
    IF a[1] # b[1] THEN a[1] < b[1]
    ELSE IF a[2] # b[2] THEN a[2] < b[2]
    ELSE a[3] <= b[3]

SortKey(r) == <<r.period_id, r.frame_index, r.player_id>>

C2_SortedDenseIndex ==
    Returned =>
        /\ \A i \in 1..(Len(df) - 1) : LexLeq(SortKey(df[i].row), SortKey(df[i + 1].row))
        /\ \A i \in DOMAIN df : df[i].index = i - 1
        /\ \A i \in DOMAIN df : FitsSigned(df[i].row.period_id, Int8Bits)

\* a frame read after a period-1 frame sorts first: its period 129 is stored
\* as a negative value
C2_Witness ==
    /\ Returned
    /\ Len(df) >= 3
    /\ df[1].row.period_id < 0
    /\ IsWellFormedFrame(consumed[1])
    /\ consumed[1].obj.period = 1

\* C3: every player entry of every message with a period becomes exactly one
\* record carrying the message's frame fields: whenever the loop is between
\* two lines the fragments followed by the buffer are exactly those records,
\* in order; the returned table has one row per record (the record after the
\* column cast), as many rows as there are entries.
C3_OneRowPerPlayerEntry ==
    /\ pc = "loop" => Flatten(dfs) \o batch = ExpectedRecords(consumed)
    /\ Returned =>
        /\ Len(df) = ExpectedRowCount(consumed)
        /\ SeqToBag(RowsOf(df))
            = SeqToBag([i \in DOMAIN ExpectedRecords(consumed) |->
                            astype_row(ExpectedRecords(consumed)[i])])

\* rows from an intermediate flush and from the final partial buffer
C3_Witness ==
    /\ Returned
    /\ batch # <<>>
    /\ Len(dfs) >= 2
    /\ Len(df) = 4

\* C4: control messages, anywhere and in any number among well-formed
\* messages, add no rows and the load does not raise.
C4_SkipNeverRaises ==
    (/\ pc \in {"done", "raised"}
     /\ \A i \in DOMAIN consumed :
            IsControl(consumed[i]) \/ IsWellFormedFrame(consumed[i])
     /\ \E i \in DOMAIN consumed : IsControl(consumed[i]))
    => /\ Returned
       /\ Len(df) = ExpectedRowCount(consumed)

\* C8: a line that is not valid structured data, or a message with a period
\* that lacks a required frame or player field, makes the load fail with
\* MalformedInputError and return no table.
C8_MalformedInputError ==
    (/\ pc \in {"done", "raised"}
     /\ \E i \in DOMAIN consumed : IsMalformed(consumed[i]))
    => /\ Failed
       /\ err = "MalformedInputError"
       /\ df = <<>>

\* the player entries of the message being processed
EntriesInProgress(o) ==
    (IF "homePlayers" \in DOMAIN o THEN Len(o.homePlayers) ELSE 0)
    + (IF "awayPlayers" \in DOMAIN o THEN Len(o.awayPlayers) ELSE 0)

BufferBound ==
    /\ chunk_size >= 1
    /\ pc = "loop" => Len(batch) < chunk_size
    /\ pc \in {"players", "check"} =>
            Len(batch) < chunk_size + EntriesInProgress(obj)

FlushStep ==
    /\ (pc = "check" /\ Len(dfs') # Len(dfs)) =>
            /\ dfs' = Append(dfs, batch)
            /\ batch' = <<>>
    /\ (pc = "check" /\ Len(dfs') = Len(dfs)) => batch' = batch
    /\ (pc = "loop" /\ Len(dfs') # Len(dfs)) =>
            /\ batch # <<>>
            /\ dfs' = Append(dfs, batch)

ShirtNumbers == {7, 99, 32767, 32768, 40000}

RosterPlayer(team, i, number) ==
    [id |-> 100 * team + i, name |-> "player", position |-> "MF", number |-> number]

Rosters(team) ==
    UNION {
        {[i \in 1..n |-> RosterPlayer(team, i, numbers[i])] :
            numbers \in [1..n -> ShirtNumbers]} :
        n \in 0..MaxRoster}

Documents ==
    {[data |-> [homeTeam |-> [id |-> 1, players |-> h],
                awayTeam |-> [id |-> 2, players |-> a]]] :
        h \in Rosters(1), a \in Rosters(2)}

\* lines 36-44: the record one roster entry becomes
metadata_record(team, p) ==
    [team_id |-> team.id, player_id |-> p.id, player_name |-> p.name,
     player_position |-> p.position, player_number |-> p.number]

\* lines 32-44
metadata_records(m) ==
    LET team_records(team) ==
            [i \in DOMAIN team.players |-> metadata_record(team, team.players[i])]
    IN  team_records(m.data.homeTeam) \o team_records(m.data.awayTeam)

\* line 47
astype_player_number(t) ==
    [i \in DOMAIN t |->
        [t[i] EXCEPT !.player_number = astype_int16(t[i].player_number)]]

MetadataInit ==
    /\ meta \in Documents
    /\ records = <<>>
    /\ meta_df = <<>>
    /\ meta_err = "none"
    /\ meta_pc = "called"

load_metadata ==
    /\ meta_pc = "called"
    /\ records' = metadata_records(meta)
    /\ IF records' = <<>>
       THEN /\ meta_err' = "KeyError"
            /\ meta_pc' = "raised"
            /\ meta_df' = meta_df
       ELSE /\ meta_df' = astype_player_number(records')
            /\ meta_pc' = "done"
            /\ meta_err' = meta_err
    /\ UNCHANGED meta

TrackingIdle ==
    /\ chunk_size = 1
    /\ consumed = <<>>
    /\ obj = NoObj
    /\ side = 1
    /\ idx = 1
    /\ batch = <<>>
    /\ dfs = <<>>
    /\ df = <<>>
    /\ err = "none"
    /\ pc = "idle"

MetaInit == TrackingIdle /\ MetadataInit /\ MetricsIdle

MetaNext == load_metadata /\ UNCHANGED <<tracking_vars, metrics_vars>>

MetaSpec == MetaInit /\ [][MetaNext]_vars

SourcePlayers(m) == m.data.homeTeam.players \o m.data.awayTeam.players

\* C9: a returned metadata table carries every shirt number exactly as the
\* source document gives it, and a source number outside the int16 range
\* makes the load fail.
C9_ShirtNumberPreserved ==
    /\ meta_pc = "done" =>
        /\ Len(meta_df) = Len(SourcePlayers(meta))
        /\ \A i \in DOMAIN meta_df :
            meta_df[i].player_number = SourcePlayers(meta)[i].number
    /\ (/\ meta_pc \in {"done", "raised"}
        /\ \E i \in DOMAIN SourcePlayers(meta) :
            ~FitsSigned(SourcePlayers(meta)[i].number, Int16Bits))
       => meta_pc = "raised"


(***************************************************************************)
(* The metrics of clubbrugge/metrics.py.  A table is a sequence of rows    *)
(* [player_id, speed, x, y] in row order.  Speeds are integers in cm/s     *)
(* and coordinates integers, so that every quotient and root below is      *)
(* exact; the code computes the same expressions in float64.               *)
(***************************************************************************)
FPS == 25

players == {101, 202}

frames == 10

Sample(pid, speed, x, y) == [player_id |-> pid, speed |-> speed, x |-> x, y |-> y]

\* x * dt and x / dt with dt = 1.0 / FPS; the speeds drawn for a band are
\* multiples of FPS
times_dt(v) == v \div FPS

over_dt(v) == v * FPS

\* mutant: diff() without the groupby, the row before whoever it belongs to
prev_row(t, i) == i - 1

\* the row before row i in the same player_id group, 0 when there is none
prev_in_group(t, i) ==
    LET before == {j \in 1..(i - 1) : t[j].player_id = t[i].player_id}
    IN  IF before = {} THEN 0 ELSE CHOOSE j \in before : \A k \in before : k <= j

\* groupby("player_id")[col].diff() at row i
group_diff(t, col, i) ==
    LET j == prev_in_group(t, i)
    IN  IF j = 0 \/ IsNaN(t[i][col]) \/ IsNaN(t[j][col]) THEN NaN
        ELSE <<t[i][col][1] - t[j][col][1]>>

fillna(v, d) == IF IsNaN(v) THEN d ELSE v[1]

\* np.hypot on the integer differences the tables below produce
hypot(a, b) == CHOOSE r \in 0..(a * a + b * b) : r * r = a * a + b * b

\* the group keys of groupby("player_id"), ascending
RECURSIVE ascending(_)
ascending(S) ==
    IF S = {} THEN <<>>
    ELSE LET m == CHOOSE v \in S : \A w \in S : v <= w
         IN  <<m>> \o ascending(S \ {m})

group_keys(t) == ascending({t[i].player_id : i \in DOMAIN t})

\* series.groupby(df["player_id"]).sum() for a series given row by row
RECURSIVE group_sum_upto(_, _, _, _)
group_sum_upto(t, series, pid, n) ==
    IF n = 0 THEN 0
    ELSE group_sum_upto(t, series, pid, n - 1)
         + (IF t[n].player_id = pid THEN series[n] ELSE 0)

group_sum(t, series, pid) == group_sum_upto(t, series, pid, Len(t))

\* metrics.py lines 33-45
total_distance(t) ==
    LET step_dist == [i \in DOMAIN t |->
                        hypot(fillna(group_diff(t, "x", i), 0),
                              fillna(group_diff(t, "y", i), 0))]
        keys == group_keys(t)
    IN  [k \in DOMAIN keys |->
            [player_id |-> keys[k], distance_m |-> group_sum(t, step_dist, keys[k])]]

\* a band (lo, hi]; hi_inf stands for an upper bound of np.inf
Band(lo, hi) == [lo |-> lo, hi |-> hi, hi_inf |-> FALSE]

BandToInf(lo) == [lo |-> lo, hi |-> 0, hi_inf |-> TRUE]

\* mutant: the lower bound closed, lo <= speed
band_mask_closed(speed, b) ==
    ~IsNaN(speed) /\ speed[1] >= b.lo /\ (b.hi_inf \/ speed[1] <= b.hi)

\* line 71
band_mask(speed, b) ==
    ~IsNaN(speed) /\ speed[1] > b.lo /\ (b.hi_inf \/ speed[1] <= b.hi)

\* line 74: "<lo>-<hi>", the upper bound left out when it is infinite
band_label(b) == IF b.hi_inf THEN <<b.lo>> ELSE <<b.lo, b.hi>>

\* lines 68-80: per player, one column per band in the caller's order
distance_by_speed_band(t, bands) ==
    LET dist(b) == [i \in DOMAIN t |->
                        IF band_mask(t[i].speed, b) THEN times_dt(t[i].speed[1]) ELSE 0]
        keys == group_keys(t)
    IN  [k \in DOMAIN keys |->
            [player_id |-> keys[k],
             columns |-> [c \in DOMAIN bands |->
                            [label |-> band_label(bands[c]),
                             value |-> group_sum(t, dist(bands[c]), keys[k])]]]]

\* lines 103-107: accel is NaN on a player's first row, and NaN >= x is False
qualifying(t, min_speed, min_accel, i) ==
    LET d == group_diff(t, "speed", i)
    IN  /\ ~IsNaN(t[i].speed)
        /\ t[i].speed[1] >= min_speed
        /\ ~IsNaN(d)
        /\ over_dt(d[1]) >= min_accel

\* mutant: every qualifying sample counted, no rising edge
rising_every_sample(t, min_speed, min_accel, i) ==
    qualifying(t, min_speed, min_accel, i)

\* line 110: qualifying and not the group-shifted qualifying (fill False)
rising(t, min_speed, min_accel, i) ==
    LET j == prev_in_group(t, i)
    IN  /\ qualifying(t, min_speed, min_accel, i)
        /\ ~(IF j = 0 THEN FALSE ELSE qualifying(t, min_speed, min_accel, j))

\* lines 101-119
count_high_speed_accel(t, min_speed, min_accel) ==
    LET edges == [i \in DOMAIN t |->
                    IF rising(t, min_speed, min_accel, i) THEN 1 ELSE 0]
        keys == group_keys(t)
    IN  [k \in DOMAIN keys |->
            [player_id |-> keys[k],
             n_accel |-> astype_int16(group_sum(t, edges, keys[k]))]]


(***************************************************************************)
(* The tables handed to the metrics, and one call per specification.       *)
(***************************************************************************)
TablesOver(samples, n) == UNION {[1..k -> samples] : k \in 0..n}

\* tests/test_metrics.py lines 15-32 for a clip of n frames: each player
\* moves one metre per frame along x at 25 m/s
TestClip(n) ==
    [i \in 1..(2 * n) |->
        Sample(IF i <= n THEN 101 ELSE 202, <<100 * FPS>>, <<(i - 1) % n>>, <<0>>)]

TestClips == {TestClip(n) : n \in 1..frames}

DistSamples ==
    {Sample(p, <<100 * FPS>>, x, y) :
        p \in players, x \in {<<0>>, <<3>>, NaN}, y \in {<<0>>, <<4>>, NaN}}

BandSamples == {Sample(p, <<s>>, <<0>>, <<0>>) : p \in players, s \in {0, 400, 425, 2500}}

AccelSamples == {Sample(p, <<s>>, <<0>>, <<0>>) : p \in players, s \in {538, 550, 562, 2500}}

\* tests/test_metrics.py line 40, then overlapping bands and bands with a gap
TestBands == <<Band(0, 400), BandToInf(400)>>

BandLists ==
    { TestBands,
      <<Band(0, 425), BandToInf(400)>>,
      <<Band(0, 400), Band(425, 2500)>> }

\* the defaults of count_high_speed_accel, in cm/s and cm/s^2
DefaultMinSpeed == 550
DefaultMinAccel == 300

MinSpeeds == {DefaultMinSpeed, 0}

MinAccels == {DefaultMinAccel, 0}

NoCall == [fn |-> "none"]

MetricsInit(tables) ==
    /\ df_test \in tables
    /\ call = NoCall
    /\ out = <<>>

call_total_distance ==
    /\ call = NoCall
    /\ call' = [fn |-> "total_distance"]
    /\ out' = total_distance(df_test)
    /\ UNCHANGED df_test

call_distance_by_speed_band ==
    /\ call = NoCall
    /\ \E bands \in BandLists :
        /\ call' = [fn |-> "distance_by_speed_band", bands |-> bands]
        /\ out' = distance_by_speed_band(df_test, bands)
    /\ UNCHANGED df_test

call_count_high_speed_accel ==
    /\ call = NoCall
    /\ \E min_speed \in MinSpeeds, min_accel \in MinAccels :
        /\ call' = [fn |-> "count_high_speed_accel",
                    min_speed |-> min_speed, min_accel |-> min_accel]
        /\ out' = count_high_speed_accel(df_test, min_speed, min_accel)
    /\ UNCHANGED df_test

DistInit ==
    /\ TrackingIdle /\ MetadataIdle
    /\ MetricsInit(TablesOver(DistSamples, MaxSteps) \cup TestClips)

DistNext == call_total_distance /\ UNCHANGED <<tracking_vars, metadata_vars>>

DistSpec == DistInit /\ [][DistNext]_vars

BandInit ==
    /\ TrackingIdle /\ MetadataIdle
    /\ MetricsInit(TablesOver(BandSamples, MaxSamples) \cup TestClips)

BandNext == call_distance_by_speed_band /\ UNCHANGED <<tracking_vars, metadata_vars>>

BandSpec == BandInit /\ [][BandNext]_vars

AccelInit ==
    /\ TrackingIdle /\ MetadataIdle
    /\ MetricsInit(TablesOver(AccelSamples, MaxSamples) \cup TestClips)

AccelNext == call_count_high_speed_accel /\ UNCHANGED <<tracking_vars, metadata_vars>>

AccelSpec == AccelInit /\ [][AccelNext]_vars

(***************************************************************************)
(* What the claims about the metrics speak of: each player's own samples,  *)
(* in that player's row order.                                             *)
(***************************************************************************)
PlayerRows(t, pid) == SelectSeq(t, LAMBDA r : r.player_id = pid)

PlayersOf(t) == {t[i].player_id : i \in DOMAIN t}

OnePerPlayer(t, result) ==
    /\ Len(result) = Cardinality(PlayersOf(t))
    /\ {result[k].player_id : k \in DOMAIN result} = PlayersOf(t)

RECURSIVE SumOver(_, _)
SumOver(S, f) ==
    IF S = {} THEN 0
    ELSE LET e == CHOOSE v \in S : TRUE IN f[e] + SumOver(S \ {e}, f)

\* the Euclidean x/y distance of a step between two samples with all four
\* coordinates present
Euclid(a, b) == hypot(b.x[1] - a.x[1], b.y[1] - a.y[1])

HasMissing(a) == IsNaN(a.x) \/ IsNaN(a.y)

\* a step with a missing coordinate in either sample counts zero
StepZeroIfAnyMissing(a, b) ==
    IF HasMissing(a) \/ HasMissing(b) THEN 0 ELSE Euclid(a, b)

\* each coordinate difference with a missing value counts zero on its own
DeltaOrZero(u, v) == IF IsNaN(u) \/ IsNaN(v) THEN 0 ELSE v[1] - u[1]

StepPerCoordinate(a, b) == hypot(DeltaOrZero(a.x, b.x), DeltaOrZero(a.y, b.y))

StepLength(a, b, per_coordinate) ==
    IF per_coordinate THEN StepPerCoordinate(a, b) ELSE StepZeroIfAnyMissing(a, b)

PathLength(rows, per_coordinate) ==
    SumOver(2..Len(rows),
            [k \in 2..Len(rows) |-> StepLength(rows[k - 1], rows[k], per_coordinate)])

UnitStepsAlongX(rows) ==
    /\ \A k \in DOMAIN rows : ~HasMissing(rows[k]) /\ rows[k].y = rows[1].y
    /\ \A k \in 2..Len(rows) : rows[k].x[1] = rows[k - 1].x[1] + 1

DistanceIs(per_coordinate) ==
    call.fn = "total_distance" =>
        /\ OnePerPlayer(df_test, out)
        /\ \A k \in DOMAIN out :
            LET rows == PlayerRows(df_test, out[k].player_id)
            IN  /\ out[k].distance_m = PathLength(rows, per_coordinate)
                /\ UnitStepsAlongX(rows) => out[k].distance_m = Len(rows) - 1

\* C7 as stated: a step in which either sample has a missing coordinate
\* contributes zero displacement.
C7_MissingStepIsZero == DistanceIs(FALSE)

\* C7 amended: total_distance sums, per player and over the player's
\* consecutive sample pairs in row order, the Euclidean length of the step
\* in which each coordinate difference that involves a missing value is
\* taken as zero on its own (so a step missing only x still contributes
\* |dy|); the first sample contributes zero; n unit steps along x give n - 1.
C7_MissingDeltaIsZero == DistanceIs(TRUE)

\* a step with x missing and y moving, and the ten-frame clip of the tests
C7_Witness ==
    /\ call.fn = "total_distance"
    /\ \E k \in DOMAIN out :
        LET rows == PlayerRows(df_test, out[k].player_id)
        IN  /\ Len(rows) = 3
            /\ IsNaN(rows[2].x) /\ ~IsNaN(rows[1].x) /\ ~IsNaN(rows[3].x)
            /\ rows[1].y # rows[2].y /\ ~IsNaN(rows[1].y) /\ ~IsNaN(rows[2].y)
            /\ out[k].distance_m = 4

C7_TestClipWitness ==
    /\ call.fn = "total_distance"
    /\ df_test = TestClip(frames)
    /\ out[1] = [player_id |-> 101, distance_m |-> frames - 1]

\* the half-open rule lower < speed <= upper of a band
InBand(speed, b) ==
    IF b.hi_inf THEN b.lo < speed ELSE b.lo < speed /\ speed <= b.hi

BandDistance(rows, b) ==
    SumOver({k \in DOMAIN rows : InBand(rows[k].speed[1], b)},
            [k \in DOMAIN rows |-> rows[k].speed[1] \div FPS])

AllDistance(rows) ==
    SumOver(DOMAIN rows, [k \in DOMAIN rows |-> rows[k].speed[1] \div FPS])

\* C6: per player and per band the column is the sum of speed * dt over
\* exactly that player's samples with lower < speed <= upper, each band
\* tested on its own (no band: no column gains; several bands: each gains
\* the full contribution); with the bands (0, 4) and (4, inf) a player always
\* faster than 4 m/s has 0 in the first column and all its distance in the
\* second.
C6_BandMembershipPerBand ==
    call.fn = "distance_by_speed_band" =>
        /\ OnePerPlayer(df_test, out)
        /\ \A k \in DOMAIN out :
            LET rows == PlayerRows(df_test, out[k].player_id)
            IN  /\ Len(out[k].columns) = Len(call.bands)
                /\ \A c \in DOMAIN call.bands :
                    out[k].columns[c].value = BandDistance(rows, call.bands[c])
                /\ (/\ call.bands = TestBands
                    /\ \A i \in DOMAIN rows : rows[i].speed[1] > 400)
                   => /\ out[k].columns[1].value = 0
                      /\ out[k].columns[2].value = AllDistance(rows)

\* overlapping bands: a sample at 4.25 m/s counted in full in both columns,
\* next to a sample at 0 m/s that is in no band
C6_Witness ==
    /\ call.fn = "distance_by_speed_band"
    /\ call.bands = <<Band(0, 425), BandToInf(400)>>
    /\ \E k \in DOMAIN out :
        /\ PlayerRows(df_test, out[k].player_id)
            = <<Sample(out[k].player_id, <<425>>, <<0>>, <<0>>),
                Sample(out[k].player_id, <<0>>, <<0>>, <<0>>)>>
        /\ out[k].columns[1].value = 17
        /\ out[k].columns[2].value = 17

\* sample k of a player's rows qualifies
Qualifies(rows, k, min_speed, min_accel) ==
    /\ k > 1
    /\ rows[k].speed[1] >= min_speed
    /\ (rows[k].speed[1] - rows[k - 1].speed[1]) * FPS >= min_accel

\* the maximal runs of consecutive qualifying samples, counted at their last
\* sample
MaximalRuns(rows, min_speed, min_accel) ==
    Cardinality({k \in DOMAIN rows :
        /\ Qualifies(rows, k, min_speed, min_accel)
        /\ (k = Len(rows) \/ ~Qualifies(rows, k + 1, min_speed, min_accel))})

ConstantSpeed(t) ==
    \A i, j \in DOMAIN t : t[i].player_id = t[j].player_id => t[i].speed = t[j].speed

CountsRuns ==
    /\ OnePerPlayer(df_test, out)
    /\ \A k \in DOMAIN out :
        out[k].n_accel = MaximalRuns(PlayerRows(df_test, out[k].player_id),
                                     call.min_speed, call.min_accel)

NoEvents == \A k \in DOMAIN out : out[k].n_accel = 0

\* C5 as stated: the count is the number of maximal runs of qualifying
\* samples per player, and a clip of constant speeds yields 0 events for
\* every player, whatever the thresholds.
C5_ConstantSpeedNoEvents ==
    call.fn = "count_high_speed_accel" =>
        /\ CountsRuns
        /\ ConstantSpeed(df_test) => NoEvents

\* C5 amended: the count is the number of maximal runs of qualifying samples
\* per player (a first sample never qualifies), and a clip of constant
\* speeds yields 0 events for every player when min_accel > 0, as with the
\* default 3.0.
C5_RisingEdgeCount ==
    call.fn = "count_high_speed_accel" =>
        /\ CountsRuns
        /\ \A k \in DOMAIN out :
            ~Qualifies(PlayerRows(df_test, out[k].player_id), 1,
                       call.min_speed, call.min_accel)
        /\ (ConstantSpeed(df_test) /\ call.min_accel > 0) => NoEvents

\* a sustained sprint of two consecutive qualifying samples, counted once
C5_Witness ==
    /\ call.fn = "count_high_speed_accel"
    /\ call.min_speed = DefaultMinSpeed
    /\ call.min_accel = DefaultMinAccel
    /\ \E k \in DOMAIN out :
        LET rows == PlayerRows(df_test, out[k].player_id)
        IN  /\ Len(rows) = 3
            /\ Qualifies(rows, 2, call.min_speed, call.min_accel)
            /\ Qualifies(rows, 3, call.min_speed, call.min_accel)
            /\ out[k].n_accel = 1

====
